---- MODULE Spec2Model ----
(***************************************************************************)
(* ScanADC: background scanning of analogue inputs under control of the    *)
(* ADC conversion-complete interrupt (src/src/ScanADC.cpp, ScanADC.h).      *)
(*                                                                         *)
(* Two execution contexts are modelled:                                    *)
(*   - the interrupt handler ISR(ADC_vect).  An event that lands in INIT,   *)
(*     DELAY or a non-final ACCUMULATE is one action.  The event that       *)
(*     completes an averaging window is split at its statements            *)
(*     (isr_pc), so that the order of its writes and callbacks is part of   *)
(*     the state.  The handler runs to completion: the application thread   *)
(*     takes no step while isr_pc # "idle".                                 *)
(*   - the single application thread, which calls the public methods.       *)
(*     begin() and end() clear ADCSRA with their first store and are one    *)
(*     action each; the methods the handler can interleave with             *)
(*     (wait_channel, get_sample, attach callbacks) are split at their      *)
(*     statements (app_pc).                                                 *)
(*                                                                         *)
(* The object has static storage duration (getInstance), so every member   *)
(* the constructor does not set starts as zero.                            *)
(*                                                                         *)
(* The block begin() allocates holds the table, the sn and the sample      *)
(* array.  An access with an index outside it (a channel_count of 0, a     *)
(* read with no session) finds an indeterminate value or lands in memory   *)
(* the model does not hold; wild records that it happened.                 *)
(***************************************************************************)
EXTENDS Integers, Sequences, FiniteSets, TLC

\* ------------------------------------------------------------------ bounds
\* Spec: channel_count of begin() is in 1..MaxChannels, sample_count_log2 in
\* 0..MaxLog2, and conversion events stop after MaxScans full scans.
MaxChannels == 2
MaxLog2 == 1
MaxScans == 2
\* SpecAvg: the same three bounds.
AvgChannels == 1
AvgLog2 == 2
AvgScans == 2
\* SpecApp: the same three bounds.
AppChannels == 2
AppLog2 == 1
AppScans == 2
\* Reads outside the configuration table find a depth in 0..WildLog2.
WildLog2 == 1
\* SpecEdge: channel_count of begin() is in 0..EdgeChannels, the depths in
\* 0..EdgeLog2; events stop after EdgeScans scans (windows, with no channels).
EdgeChannels == 1
EdgeLog2 == 1
EdgeScans == 2
\* SpecSnap: channels and scans; every depth is 0.
SnapChannels == 2
SnapScans == 2
\* SpecLong: channels and scans; the scans go past the wrap of sn, and the
\* depths are 0 and 1 (windows of one and of two raw values).
LongChannels == 2
LongScans == 257
\* SpecNum: scans of one channel, at every depth the descriptor can hold.
NumScans == 1
\* SpecLive: channel_count of begin() is in 1..LiveChannels, the depths in
\* 0..LiveLog2; conversion events never stop.
LiveChannels == 1
LiveLog2 == 1

\* Raw conversion results (ADCH:ADCL) the converter delivers.
RawValues == {1, 2}
\* SpecApp: one raw value, whose two bytes both differ from those of the
\* sample's initial 0.
TearValues == {257}
\* The single raw value of SpecLong.
LongValues == {1}
\* SpecSnap: every conversion of scan number s (1, 2, ...) delivers s, where
\* done is the number of scans completed.
SnapValues(done) == {done + 1}
\* The single raw value of SpecEdge.
EdgeValues == {3}

\* ------------------------------------------------------- program constants
UINT8 == 256
UINT16 == 65536
REFS0 == 64
\* The largest 10-bit conversion result.
MaxRaw == 1023
\* The largest value of the 4-bit field sample_count_log2.
MaxSampleCountLog2 == 15

\* Function pointers: NULL, or a user function installed as a callback.
NULL == "NULL"
UserFn == "user_fn"
\* Data pointers: the null pointer, or a pointer to the table t.
NullPtr == [null |-> TRUE]
Ptr(t) == [null |-> FALSE, at |-> t]
\* No channel index (a value no uint8_t index takes).
NoChannel == UINT8

\* The mux values of the README's four-channel example.
MuxOf(i) == 7 - (i % 4)

VARIABLES
    \* hardware registers
    ADCSRA, ADCSRB, ADMUX,
    \* members of ScanADC
    chan_count, channel_cb, channel_scan_cb, state, chan_i,
    sample_cnt, sample_cnt_target, sample_accumulator,
    config, sn, sample,
    \* the handler: position and its local accumulator
    isr_pc, accumulator,
    \* the application thread: position, arguments and locals
    app_pc, channel, cb, last_sn, old_ADCSRA, s_lo, s_hi,
    \* observations (history variables; no action's guard reads them,
    \* except the cap on the number of scans)
    cycles, last_avg, win, fin_prev, fin_last, calls, ccb_seen, scb_seen, wc_incs,
    \* events: the conversion events handled since begin() or since the last
    \* scan was completed; wild: the regions accessed outside the block;
    \* waited: the scan the last wait_channel(N-1) returned for
    events, wild, waited,
    \* the allocator: the number of blocks malloc() has handed out and free()
    \* has not taken back
    heap,
    \* the thread, inside wait_channel, has executed a statement since the
    \* handler last returned
    ran

hw == <<ADCSRA, ADCSRB, ADMUX>>
cbs == <<channel_cb, channel_scan_cb>>
window == <<sample_cnt, sample_cnt_target, sample_accumulator>>
store == <<sn, sample>>
app == <<app_pc, channel, cb, last_sn, old_ADCSRA, s_lo, s_hi>>
locals == <<channel, cb, last_sn, old_ADCSRA, s_lo, s_hi>>
seen == <<ccb_seen, scb_seen>>
fins == <<fin_prev, fin_last>>
engine == <<chan_count, state, chan_i, sample_cnt, sample_cnt_target,
            sample_accumulator, config, sn, sample>>
isr == <<isr_pc, accumulator>>
hist == <<cycles, last_avg, win, fin_prev, fin_last, calls, ccb_seen, scb_seen,
          events, wild, heap>>
vars == <<ADCSRA, ADCSRB, ADMUX, chan_count, channel_cb, channel_scan_cb, state,
          chan_i, sample_cnt, sample_cnt_target, sample_accumulator, config, sn,
          sample, isr_pc, accumulator, app_pc, channel, cb, last_sn, old_ADCSRA,
          s_lo, s_hi, cycles, last_avg, win, fin_prev, fin_last, calls,
          ccb_seen, scb_seen, wc_incs, events, wild, waited, heap, ran>>

\* ------------------------------------------------------------------ helpers
Pow2(n) == 2 ^ n

\* uint32_t, kept as two 16-bit halves: its value is hi * 2^16 + lo.
U32(n) == [hi |-> n \div UINT16, lo |-> n % UINT16]
\* (mutant) the sum kept in 16 bits
U32AddNarrow(a, n) == [hi |-> 0, lo |-> (a.lo + n) % UINT16]

\* a + n modulo 2^32, for a 16-bit n
U32Add(a, n) == LET t == a.lo + n
                IN  [hi |-> (a.hi + (t \div UINT16)) % UINT16, lo |-> t % UINT16]
\* a >> k, for k in 0..15
U32Shr(a, k) == [hi |-> a.hi \div Pow2(k),
                 lo |-> (a.lo \div Pow2(k)) + (a.hi % Pow2(k)) * Pow2(16 - k)]
\* (uint16_t) a
U32Low16(a) == a.lo
\* The value of a, as a number.
U32Value(a) == a.hi * UINT16 + a.lo

\* channel_config_t: mux and the 4-bit sample_count_log2.
ChannelConfig(i, d) == [mux |-> MuxOf(i), sample_count_log2 |-> d]

\* The configuration tables begin() is called with: n channels, any depths.
ConfigsOf(maxN, maxD) ==
    UNION { { [i \in 0..(n - 1) |-> ChannelConfig(i, f[i])] :
                f \in [0..(n - 1) -> 0..maxD] } : n \in 1..maxN }


\* memset(p, 0, alloc_size): n zeroed slots.
Zeroed(n) == [i \in 0..(n - 1) |-> 0]

\* The raw values accumulated in the current window, as a bag.
EmptyWin == [v \in {} |-> 0]
WinAdd(w, v) == IF v \in DOMAIN w THEN [w EXCEPT ![v] = @ + 1]
                ELSE [x \in DOMAIN w \cup {v} |-> IF x = v THEN 1 ELSE w[x]]
RECURSIVE SumOver(_, _)
SumOver(w, S) == IF S = {} THEN 0
                 ELSE LET v == CHOOSE x \in S : TRUE
                      IN  v * w[v] + SumOver(w, S \ {v})
WinSum(w) == SumOver(w, DOMAIN w)
RECURSIVE CountOver(_, _)
CountOver(w, S) == IF S = {} THEN 0
                   ELSE LET v == CHOOSE x \in S : TRUE
                        IN  w[v] + CountOver(w, S \ {v})
WinCount(w) == CountOver(w, DOMAIN w)
\* The smallest and the largest raw value of a window that is not empty.
WinMin(w) == CHOOSE v \in DOMAIN w : \A u \in DOMAIN w : v <= u
WinMax(w) == CHOOSE v \in DOMAIN w : \A u \in DOMAIN w : u <= v
\* SpecNum: the first two raw values of a window are 0, 1 or the largest
\* result, each; the rest repeat the larger of the two.
NumValues(w) == IF WinCount(w) < 2 THEN {0, 1, MaxRaw} ELSE {WinMax(w)}

NoCalls == [ccb |-> 0, scb |-> 0]
NotSeen == [chan |-> NoChannel]
\* No scan number (wait_channel has not returned for a scan).
NoScan == -1
\* The completed windows of a channel are counted modulo CycleWrap, a
\* multiple of the 256 values of sn that no bound on the scans reaches.
CycleWrap == 2 * UINT8

\* What a read of config[i] outside the table can find there.
WildConfigs == {ChannelConfig(0, d) : d \in 0..WildLog2}
\* config[i]: the descriptor at index i of the table t.
Descriptors(t, i) == IF i \in DOMAIN t THEN {t[i]} ELSE WildConfigs
\* The regions the handler or begin() has accessed outside the block.
Outside(t, i, region) == IF i \in DOMAIN t THEN {} ELSE {region}

\* ---------------------------------------------------------------- Init
Init ==
    /\ ADCSRA = {} /\ ADCSRB = {} /\ ADMUX = 0
    /\ chan_count = 0
    /\ channel_cb = NULL /\ channel_scan_cb = NULL
    /\ state = "INIT" /\ chan_i = 0
    /\ sample_cnt = 0 /\ sample_cnt_target = 0 /\ sample_accumulator = U32(0)
    /\ config = NullPtr /\ sn = <<>> /\ sample = <<>>
    /\ isr_pc = "idle" /\ accumulator = U32(0)
    /\ app_pc = "idle" /\ channel = 0 /\ cb = NULL /\ last_sn = 0
    /\ old_ADCSRA = {} /\ s_lo = 0 /\ s_hi = 0
    /\ cycles = <<>> /\ last_avg = <<>> /\ win = EmptyWin
    /\ fin_prev = NoChannel /\ fin_last = NoChannel
    /\ calls = NoCalls /\ ccb_seen = NotSeen /\ scb_seen = NotSeen
    /\ wc_incs = 0
    /\ events = 0 /\ wild = {} /\ waited = NoScan
    /\ heap = 0
    /\ ran = FALSE

\* ------------------------------------------------------------ begin / end
\* (mutant) the block is never given back
FreeNever(ptr, blocks) == blocks

\* if (config) { free(config); ... }: the blocks allocated afterwards.
FreeIf(ptr, blocks) == IF ptr.null THEN blocks ELSE blocks - 1

\* (mutant) end() leaves the ADC and its interrupt as they are
EndControlKept(reg) == reg

\* ADCSRA = 0; in end()
EndControl(reg) == {}

\* (mutant) end() uninstalls the callback
EndCallbackCleared(fn) == NULL

\* A callback pointer after end(): the function does not assign it.
EndCallback(fn) == fn

\* ScanADC::end(): ADCSRA = 0; if (config) { free(config); config = NULL; }
end ==
    /\ app_pc = "idle" /\ isr_pc = "idle"
    /\ ADCSRA' = EndControl(ADCSRA)
    /\ heap' = FreeIf(config, heap)
    /\ config' = NullPtr
    /\ channel_cb' = EndCallback(channel_cb)
    /\ channel_scan_cb' = EndCallback(channel_scan_cb)
    /\ waited' = NoScan
    /\ UNCHANGED <<ran, ADCSRB, ADMUX, chan_count, state, chan_i, window, store,
                   isr_pc, accumulator, app, cycles, last_avg, win, fins, calls,
                   seen, wc_incs, events, wild>>

\* (mutant) begin() leaves the phase of the previous session
BeginStateKept(old) == old

\* state = ISR_STATE_INIT; in begin()
BeginState(old) == "INIT"

\* ScanADC::begin(channel_config, channel_count): end(), then the block is
\* allocated and zeroed, the table copied, and the ADC started.  malloc() is
\* taken to succeed (for a size of 0 avr-libc returns a block too).
begin(cfg) ==
    LET channel_count == Cardinality(DOMAIN cfg) IN
    /\ app_pc = "idle" /\ isr_pc = "idle"
    /\ ADCSRB' = {}
    /\ heap' = FreeIf(config, heap) + 1
    /\ config' = Ptr(cfg)
    /\ sn' = Zeroed(channel_count)
    /\ sample' = Zeroed(channel_count)
    /\ chan_count' = channel_count
    /\ state' = BeginState(state)
    /\ chan_i' = 0
    /\ \E d \in Descriptors(cfg, 0) : ADMUX' = REFS0 + d.mux
    /\ wild' = Outside(cfg, 0, "begin")
    /\ ADCSRA' = {"ADPS2", "ADEN", "ADATE", "ADIE", "ADSC"}
    /\ cycles' = Zeroed(channel_count)
    /\ last_avg' = Zeroed(channel_count)
    /\ win' = EmptyWin
    /\ fin_prev' = NoChannel /\ fin_last' = NoChannel
    /\ calls' = NoCalls
    /\ ccb_seen' = NotSeen /\ scb_seen' = NotSeen
    /\ events' = 0
    /\ waited' = NoScan
    /\ channel_cb' = EndCallback(channel_cb)
    /\ channel_scan_cb' = EndCallback(channel_scan_cb)
    /\ UNCHANGED <<ran, window, isr_pc, accumulator, app, wc_incs>>

\* ------------------------------------------------------- ISR(ADC_vect)
\* The full scans completed since begin(); with no channels, the windows
\* completed since begin().
ScansDone == IF chan_count > 0 THEN cycles[chan_count - 1] ELSE chan_i

\* A conversion-complete interrupt is taken: the ADC and its interrupt are
\* enabled (begin() has set the global interrupt flag) and no handler is
\* running.  The model delivers no more events once maxScans scans are done.
IsrEntry(maxScans) ==
    /\ isr_pc = "idle"
    /\ "ADEN" \in ADCSRA /\ "ADIE" \in ADCSRA
    /\ ScansDone < maxScans

\* (mutant) a window of one raw value more
TargetPlusOne(samples_log2) == ((1 * Pow2(samples_log2)) + 1) % UINT16

\* sample_cnt_target = 1; sample_cnt_target <<= sample_count_log2; (uint16_t)
Target(samples_log2) == (1 * Pow2(samples_log2)) % UINT16

\* case ISR_STATE_INIT.  raw is the conversion result in ADCL/ADCH at this
\* event; the case does not read it.
ADC_vect_INIT(maxScans, raw) ==
    /\ IsrEntry(maxScans)
    /\ state = "INIT"
    /\ \E d \in Descriptors(config.at, chan_i) :
        /\ ADCSRB' = IF (d.mux \div 32) % 2 = 1 THEN ADCSRB \cup {"MUX5"}
                     ELSE ADCSRB \ {"MUX5"}
        /\ ADMUX' = (ADMUX \div 32) * 32 + (d.mux % 32)
        /\ sample_cnt_target' = Target(d.sample_count_log2)
    /\ sample_accumulator' = U32(0)
    /\ sample_cnt' = 0
    /\ state' = "DELAY"
    /\ win' = EmptyWin
    /\ events' = events + 1
    /\ wild' = wild \cup Outside(config.at, chan_i, "config")
    /\ ran' = FALSE
    /\ UNCHANGED <<ADCSRA, chan_count, cbs, chan_i, config, store, isr_pc,
                   accumulator, app, cycles, last_avg, fins, calls, seen, wc_incs,
                   waited, heap>>

\* (mutant) the settle event's conversion result is accumulated
SettleAccumulates(acc, raw) == U32Add(acc, raw)

\* The accumulator after the settle event: the case leaves it alone.
Settle(acc, raw) == acc

\* case ISR_STATE_DELAY.  raw is the conversion result in ADCL/ADCH at this
\* event; the case does not read it.
ADC_vect_DELAY(maxScans, raw) ==
    /\ IsrEntry(maxScans)
    /\ state = "DELAY"
    /\ state' = "ACCUMULATE"
    /\ sample_accumulator' = Settle(sample_accumulator, raw)
    /\ events' = events + 1
    /\ ran' = FALSE
    /\ UNCHANGED <<hw, chan_count, cbs, chan_i, sample_cnt, sample_cnt_target,
                   config, store, isr_pc, accumulator, app, cycles, last_avg, win,
                   fins, calls, seen, wc_incs, wild, waited, heap>>

\* accumulator += (uint16_t)((high << 8) | low), with low = ADCL, high = ADCH.
Accumulate(acc, raw) ==
    LET low == raw % UINT8
        high == (raw \div UINT8) % UINT8
    IN  U32Add(acc, (high * UINT8 + low) % UINT16)

\* (mutant) the average without the rounding bias
AverageTruncating(acc, target, samples_log2) ==
    IF samples_log2 # 0 THEN U32Shr(acc, samples_log2) ELSE acc

\* (mutant) the average with a bias of target instead of target >> 1
AverageFullBias(acc, target, samples_log2) ==
    IF samples_log2 # 0
    THEN U32Shr(U32Add(acc, target), samples_log2)
    ELSE acc

\* The average of a completed window:
\*   if (samples_log2 != 0) { accumulator += target >> 1; accumulator >>= samples_log2; }
Average(acc, target, samples_log2) ==
    IF samples_log2 # 0
    THEN U32Shr(U32Add(acc, target \div 2), samples_log2)
    ELSE acc

\* case ISR_STATE_ACCUMULATE, ++sample_cnt != sample_cnt_target
ADC_vect_ACCUMULATE(maxScans, raw) ==
    LET cnt == (sample_cnt + 1) % UINT16 IN
    /\ IsrEntry(maxScans)
    /\ state = "ACCUMULATE"
    /\ cnt # sample_cnt_target
    /\ sample_cnt' = cnt
    /\ sample_accumulator' = Accumulate(sample_accumulator, raw)
    /\ win' = WinAdd(win, raw)
    /\ events' = events + 1
    /\ ran' = FALSE
    /\ UNCHANGED <<hw, chan_count, cbs, state, chan_i, sample_cnt_target, config,
                   store, isr_pc, accumulator, app, cycles, last_avg, fins, calls,
                   seen, wc_incs, wild, waited, heap>>

\* (mutant) sn is incremented before the sample is stored
AfterStepSnFirst(pc) ==
    CASE pc = "finalize" -> "inc_sn"
      [] pc = "inc_sn" -> "store_sample"
      [] pc = "store_sample" -> "channel_cb"
      [] pc = "channel_cb" -> "advance"
      [] pc = "advance" -> "scan_cb"
      [] pc = "scan_cb" -> "set_state"
      [] pc = "set_state" -> "idle"

\* (mutant) the channel callback runs before the sample is stored
AfterStepCbFirst(pc) ==
    CASE pc = "finalize" -> "channel_cb"
      [] pc = "channel_cb" -> "store_sample"
      [] pc = "store_sample" -> "inc_sn"
      [] pc = "inc_sn" -> "advance"
      [] pc = "advance" -> "scan_cb"
      [] pc = "scan_cb" -> "set_state"
      [] pc = "set_state" -> "idle"

\* The statements of the finalizing branch, in the order the handler runs them.
AfterStep(pc) ==
    CASE pc = "finalize" -> "store_sample"
      [] pc = "store_sample" -> "inc_sn"
      [] pc = "inc_sn" -> "channel_cb"
      [] pc = "channel_cb" -> "advance"
      [] pc = "advance" -> "scan_cb"
      [] pc = "scan_cb" -> "set_state"
      [] pc = "set_state" -> "idle"

\* case ISR_STATE_ACCUMULATE, ++sample_cnt == sample_cnt_target: the window is
\* complete and its average is computed in the local accumulator.
ADC_vect_FINALIZE(maxScans, raw) ==
    LET cnt == (sample_cnt + 1) % UINT16 IN
    /\ IsrEntry(maxScans)
    /\ state = "ACCUMULATE"
    /\ cnt = sample_cnt_target
    /\ sample_cnt' = cnt
    /\ \E d \in Descriptors(config.at, chan_i) :
        LET avg == Average(Accumulate(sample_accumulator, raw), sample_cnt_target,
                           d.sample_count_log2)
        IN  /\ accumulator' = avg
            /\ last_avg' = IF chan_i \in DOMAIN last_avg
                           THEN [last_avg EXCEPT ![chan_i] = U32Low16(avg)]
                           ELSE last_avg
    /\ isr_pc' = AfterStep("finalize")
    /\ win' = WinAdd(win, raw)
    /\ cycles' = IF chan_i \in DOMAIN cycles
                 THEN [cycles EXCEPT ![chan_i] = (@ + 1) % CycleWrap]
                 ELSE cycles
    /\ events' = events + 1
    /\ wild' = wild \cup Outside(config.at, chan_i, "config")
    /\ UNCHANGED <<ran, hw, chan_count, cbs, state, chan_i, sample_cnt_target,
                   sample_accumulator, config, store, app, fins, calls, seen,
                   wc_incs, waited, heap>>

\* (mutant) the results of every channel go to the slot of channel 0
SlotFirst(i) == 0

\* sample[adc_scan.chan_i], sn[adc_scan.chan_i]: the slot of the two arrays
\* the finalizing branch writes
Slot(i) == i

\* adc_scan.sample[adc_scan.chan_i] = (uint16_t) accumulator;  A store outside
\* the block lands in memory the model does not hold.
ADC_vect_store_sample ==
    /\ isr_pc = "store_sample"
    /\ sample' = IF Slot(chan_i) \in DOMAIN sample
                 THEN [sample EXCEPT ![Slot(chan_i)] = U32Low16(accumulator)]
                 ELSE sample
    /\ wild' = wild \cup Outside(sample, Slot(chan_i), "sample")
    /\ isr_pc' = AfterStep("store_sample")
    /\ fin_prev' = fin_last
    /\ fin_last' = chan_i
    /\ UNCHANGED <<ran, hw, chan_count, cbs, state, chan_i, window, config, sn,
                   accumulator, app, cycles, last_avg, win, calls, seen, wc_incs,
                   events, waited, heap>>

\* (mutant) the increment without the wrap of uint8_t
IncSnNoWrap(x) == x + 1

\* adc_scan.sn[adc_scan.chan_i]++;
IncSn(x) == (x + 1) % UINT8

ADC_vect_inc_sn ==
    /\ isr_pc = "inc_sn"
    /\ sn' = IF Slot(chan_i) \in DOMAIN sn
             THEN [sn EXCEPT ![Slot(chan_i)] = IncSn(@)]
             ELSE sn
    /\ wild' = wild \cup Outside(sn, Slot(chan_i), "sn")
    /\ isr_pc' = AfterStep("inc_sn")
    /\ wc_incs' = IF app_pc \in {"wc_test", "wc_body"} /\ channel = chan_i
                  THEN IF wc_incs < 2 THEN wc_incs + 1 ELSE wc_incs
                  ELSE wc_incs
    /\ UNCHANGED <<ran, hw, chan_count, cbs, state, chan_i, window, config, sample,
                   accumulator, app, cycles, last_avg, win, fins, calls, seen,
                   events, waited, heap>>

\* (mutant) a callback is called whether or not one is installed
InstalledAlways(fn) == TRUE

\* if (adc_scan.channel_cb), if (adc_scan.channel_scan_cb)
Installed(fn) == fn # NULL

\* if (adc_scan.channel_cb) adc_scan.channel_cb(adc_scan.chan_i, (uint16_t) accumulator);
\* ccb_seen is what the callback is given and what it can read while it runs.
ADC_vect_channel_cb ==
    /\ isr_pc = "channel_cb"
    /\ IF Installed(channel_cb)
       THEN /\ ccb_seen' = [chan |-> chan_i, value |-> U32Low16(accumulator),
                            sample |-> sample, sn |-> sn]
            /\ calls' = [calls EXCEPT !.ccb = @ + 1]
       ELSE UNCHANGED <<ccb_seen, calls>>
    /\ isr_pc' = AfterStep("channel_cb")
    /\ UNCHANGED <<ran, hw, chan_count, cbs, state, chan_i, window, config, store,
                   accumulator, app, cycles, last_avg, win, fins, scb_seen,
                   wc_incs, events, wild, waited, heap>>

\* (mutant) the channel index is not incremented
AdvanceStuck(i) == i

\* ++adc_scan.chan_i
Advance(i) == (i + 1) % UINT8

\* (mutant) no finalization is taken for the end of a scan
ScanDoneNever(i, n) == FALSE

\* (mutant) every finalization is taken for the end of a scan
ScanDoneAlways(i, n) == TRUE

\* if (++adc_scan.chan_i == adc_scan.chan_count)
ScanDone(i, n) == i = n

ADC_vect_advance ==
    /\ isr_pc = "advance"
    /\ chan_i' = Advance(chan_i)
    /\ isr_pc' = IF ScanDone(chan_i', chan_count) THEN AfterStep("advance")
                 ELSE AfterStep("scan_cb")
    /\ UNCHANGED <<ran, hw, chan_count, cbs, state, window, config, store,
                   accumulator, app, cycles, last_avg, win, fins, calls, seen,
                   wc_incs, events, wild, waited, heap>>

\* { if (adc_scan.channel_scan_cb) adc_scan.channel_scan_cb(adc_scan.sample);
\*   adc_scan.chan_i = 0; }
ADC_vect_scan_cb ==
    /\ isr_pc = "scan_cb"
    /\ IF Installed(channel_scan_cb)
       THEN /\ scb_seen' = [chan |-> fin_last, samples |-> sample, sn |-> sn,
                            ccb |-> calls.ccb]
            /\ calls' = [calls EXCEPT !.scb = @ + 1]
       ELSE UNCHANGED <<scb_seen, calls>>
    /\ chan_i' = 0
    /\ isr_pc' = AfterStep("scan_cb")
    /\ UNCHANGED <<ran, hw, chan_count, cbs, state, window, config, store,
                   accumulator, app, cycles, last_avg, win, fins, ccb_seen,
                   wc_incs, events, wild, waited, heap>>

\* adc_scan.state = ScanADC::ISR_STATE_INIT; and the handler returns (its local
\* accumulator and what the callbacks saw are forgotten with it).
ADC_vect_set_state ==
    /\ isr_pc = "set_state"
    /\ state' = "INIT"
    /\ isr_pc' = AfterStep("set_state")
    /\ accumulator' = U32(0)
    /\ calls' = NoCalls
    /\ ccb_seen' = NotSeen /\ scb_seen' = NotSeen
    /\ events' = IF chan_i = 0 THEN 0 ELSE events
    /\ ran' = FALSE
    /\ UNCHANGED <<hw, chan_count, cbs, chan_i, window, config, store, app,
                   cycles, last_avg, win, fins, wc_incs, wild, waited, heap>>

\* The handler, fed raw values from raws, up to maxScans scans per session.
ADC_vect(maxScans, raws) ==
    \/ \E raw \in raws : ADC_vect_INIT(maxScans, raw)
    \/ \E raw \in raws : ADC_vect_DELAY(maxScans, raw)
    \/ \E raw \in raws : ADC_vect_ACCUMULATE(maxScans, raw)
    \/ \E raw \in raws : ADC_vect_FINALIZE(maxScans, raw)
    \/ ADC_vect_store_sample
    \/ ADC_vect_inc_sn
    \/ ADC_vect_channel_cb
    \/ ADC_vect_advance
    \/ ADC_vect_scan_cb
    \/ ADC_vect_set_state

\* ------------------------------------------------- the application thread
\* The thread is between calls and no handler is running.
AppIdle == app_pc = "idle" /\ isr_pc = "idle"
\* The thread is inside a call, at statement pc, and no handler is running.
AppAt(pc) == app_pc = pc /\ isr_pc = "idle"
\* A session is active and k indexes one of its channels (the precondition of
\* wait_channel, get_sn and get_sample).
ValidChannel(k) == ~config.null /\ k \in 0..(chan_count - 1)
\* A call returns: its arguments and locals go out of scope.
Return ==
    /\ app_pc' = "idle"
    /\ channel' = 0 /\ cb' = NULL /\ last_sn' = 0 /\ old_ADCSRA' = {}
    /\ s_lo' = 0 /\ s_hi' = 0 /\ wc_incs' = 0
    /\ ran' = FALSE

\* ADCSRA &= ~(1 << ADIE);
ClearADIE(reg) == reg \ {"ADIE"}

\* attach_channel_callback(fn): uint8_t old_ADCSRA = ADCSRA;
attach_channel_callback(fn) ==
    /\ AppIdle
    /\ cb' = fn
    /\ old_ADCSRA' = ADCSRA
    /\ app_pc' = "acc_cli"
    /\ waited' = NoScan
    /\ UNCHANGED <<ran, hw, engine, cbs, isr, hist, channel, last_sn, s_lo, s_hi,
                   wc_incs>>

\* attach_scan_callback(fn): uint8_t old_ADCSRA = ADCSRA;
attach_scan_callback(fn) ==
    /\ AppIdle
    /\ cb' = fn
    /\ old_ADCSRA' = ADCSRA
    /\ app_pc' = "asc_cli"
    /\ waited' = NoScan
    /\ UNCHANGED <<ran, hw, engine, cbs, isr, hist, channel, last_sn, s_lo, s_hi,
                   wc_incs>>

\* ADCSRA &= ~(1 << ADIE); in attach_channel_callback
attach_channel_callback_cli ==
    /\ AppAt("acc_cli")
    /\ ADCSRA' = ClearADIE(ADCSRA)
    /\ app_pc' = "acc_store"
    /\ UNCHANGED <<ran, ADCSRB, ADMUX, engine, cbs, isr, hist, locals, wc_incs,
                   waited>>

\* ADCSRA &= ~(1 << ADIE); in attach_scan_callback
attach_scan_callback_cli ==
    /\ AppAt("asc_cli")
    /\ ADCSRA' = ClearADIE(ADCSRA)
    /\ app_pc' = "asc_store"
    /\ UNCHANGED <<ran, ADCSRB, ADMUX, engine, cbs, isr, hist, locals, wc_incs,
                   waited>>

\* channel_cb = cb;
attach_channel_callback_store ==
    /\ AppAt("acc_store")
    /\ channel_cb' = cb
    /\ app_pc' = "acc_restore"
    /\ UNCHANGED <<ran, hw, engine, channel_scan_cb, isr, hist, locals, wc_incs,
                   waited>>

\* channel_scan_cb = cb;
attach_scan_callback_store ==
    /\ AppAt("asc_store")
    /\ channel_scan_cb' = cb
    /\ app_pc' = "asc_restore"
    /\ UNCHANGED <<ran, hw, engine, channel_cb, isr, hist, locals, wc_incs, waited>>

\* (mutant) the register is restored with the interrupt enabled
RestoredEnabled(old) == old \cup {"ADIE"}

\* ADCSRA = old_ADCSRA; the value stored back
Restored(old) == old

\* ADCSRA = old_ADCSRA; and attach_channel_callback returns
attach_channel_callback_restore ==
    /\ AppAt("acc_restore")
    /\ ADCSRA' = Restored(old_ADCSRA)
    /\ Return
    /\ UNCHANGED <<ADCSRB, ADMUX, engine, cbs, isr, hist, waited>>

\* ADCSRA = old_ADCSRA; and attach_scan_callback returns
attach_scan_callback_restore ==
    /\ AppAt("asc_restore")
    /\ ADCSRA' = Restored(old_ADCSRA)
    /\ Return
    /\ UNCHANGED <<ADCSRB, ADMUX, engine, cbs, isr, hist, waited>>

\* What a load of sn[k] outside a session's block can find there.
WildSn == {0, 1}
\* sn[k], as wait_channel and get_sn load it: through the pointer begin() has
\* set, which end() leaves pointing into the block it has freed.
SnAt(k) == IF ValidChannel(k) THEN {sn[k]} ELSE WildSn

\* wait_channel(k): uint8_t last_sn = sn[channel];
wait_channel(k) ==
    /\ AppIdle
    /\ channel' = k
    /\ \E v \in SnAt(k) : last_sn' = v
    /\ wc_incs' = 0
    /\ waited' = NoScan
    /\ app_pc' = "wc_test"
    /\ ran' = TRUE
    /\ UNCHANGED <<hw, engine, cbs, isr, hist, cb, old_ADCSRA, s_lo, s_hi>>

\* wait_scan(): if (chan_count > 0) wait_channel(chan_count - 1);
wait_scan ==
    IF chan_count > 0
    THEN wait_channel(chan_count - 1)
    ELSE AppIdle /\ UNCHANGED vars

\* (mutant) the loop test inverted
WaitGoesOnInverted(last, now) == last # now

\* The loop test of wait_channel: the loop goes on while last_sn == sn[channel].
WaitGoesOn(last, now) == last = now

\* while (last_sn == sn[channel])
wait_channel_test ==
    /\ AppAt("wc_test")
    /\ \E v \in SnAt(channel) :
        app_pc' = IF WaitGoesOn(last_sn, v) THEN "wc_body" ELSE "wc_ret"
    /\ ran' = TRUE
    /\ UNCHANGED <<hw, engine, cbs, isr, hist, locals, wc_incs, waited>>

\* { last_sn = sn[channel]; }
wait_channel_body ==
    /\ AppAt("wc_body")
    /\ \E v \in SnAt(channel) : last_sn' = v
    /\ app_pc' = "wc_test"
    /\ ran' = TRUE
    /\ UNCHANGED <<hw, engine, cbs, isr, hist, channel, cb, old_ADCSRA, s_lo,
                   s_hi, wc_incs, waited>>

\* wait_channel returns; waited is the number of the scan whose last channel
\* the call has waited for (recorded for the scans SpecSnap reaches).
wait_channel_return ==
    /\ AppAt("wc_ret")
    /\ Return
    /\ waited' = IF /\ ValidChannel(channel) /\ channel = chan_count - 1
                    /\ cycles[channel] <= SnapScans
                 THEN cycles[channel]
                 ELSE NoScan
    /\ UNCHANGED <<hw, engine, cbs, isr, hist>>

\* get_sn(k): return sn[channel]; (one byte, one load)
get_sn(k) ==
    /\ AppIdle
    /\ channel' = k
    /\ \E v \in SnAt(k) : s_lo' = v
    /\ app_pc' = "sn_ret"
    /\ waited' = NoScan
    /\ UNCHANGED <<ran, hw, engine, cbs, isr, hist, cb, last_sn, old_ADCSRA, s_hi,
                   wc_incs>>

\* get_sn returns
get_sn_return ==
    /\ AppAt("sn_ret")
    /\ Return
    /\ UNCHANGED <<hw, engine, cbs, isr, hist, waited>>

\* What a load of sample[k] outside a session's block can find there.
WildSamples == {0, UINT8 + 1}
\* sample[k], as get_sample loads it.
SampleAt(k) == IF ValidChannel(k) THEN {sample[k]} ELSE WildSamples

\* get_sample(k): uint8_t old_ADCSRA = ADCSRA;
get_sample(k) ==
    /\ AppIdle
    /\ channel' = k
    /\ old_ADCSRA' = ADCSRA
    /\ app_pc' = "gs_cli"
    /\ UNCHANGED <<ran, hw, engine, cbs, isr, hist, cb, last_sn, s_lo, s_hi,
                   wc_incs, waited>>

\* (mutant) get_sample leaves the ADC interrupt enabled
GetSampleMaskNone(reg) == reg

\* The register get_sample writes before it loads the sample.
GetSampleMask(reg) == ClearADIE(reg)

\* ADCSRA &= ~(1 << ADIE); in get_sample
get_sample_cli ==
    /\ AppAt("gs_cli")
    /\ ADCSRA' = GetSampleMask(ADCSRA)
    /\ app_pc' = "gs_lo"
    /\ UNCHANGED <<ran, ADCSRB, ADMUX, engine, cbs, isr, hist, locals, wc_incs,
                   waited>>

\* s = sample[channel]; the low byte of the 16-bit load
get_sample_lo ==
    /\ AppAt("gs_lo")
    /\ \E v \in SampleAt(channel) : s_lo' = v % UINT8
    /\ app_pc' = "gs_hi"
    /\ UNCHANGED <<ran, hw, engine, cbs, isr, hist, channel, cb, last_sn,
                   old_ADCSRA, s_hi, wc_incs, waited>>

\* s = sample[channel]; the high byte of the 16-bit load
get_sample_hi ==
    /\ AppAt("gs_hi")
    /\ \E v \in SampleAt(channel) : s_hi' = v \div UINT8
    /\ app_pc' = "gs_restore"
    /\ UNCHANGED <<ran, hw, engine, cbs, isr, hist, channel, cb, last_sn,
                   old_ADCSRA, s_lo, wc_incs, waited>>

\* ADCSRA = old_ADCSRA;
get_sample_restore ==
    /\ AppAt("gs_restore")
    /\ ADCSRA' = Restored(old_ADCSRA)
    /\ app_pc' = "gs_ret"
    /\ UNCHANGED <<ran, ADCSRB, ADMUX, engine, cbs, isr, hist, locals, wc_incs,
                   waited>>

\* return s;
get_sample_return ==
    /\ AppAt("gs_ret")
    /\ Return
    /\ waited' = NoScan
    /\ UNCHANGED <<hw, engine, cbs, isr, hist>>

\* The calls that install and remove callbacks.
Attach ==
    \/ \E fn \in {NULL, UserFn} : attach_channel_callback(fn)
    \/ \E fn \in {NULL, UserFn} : attach_scan_callback(fn)
    \/ attach_channel_callback_cli
    \/ attach_scan_callback_cli
    \/ attach_channel_callback_store
    \/ attach_scan_callback_store
    \/ attach_channel_callback_restore
    \/ attach_scan_callback_restore

\* The calls that wait for and read results, made as their precondition asks:
\* in a session, for one of its channels.
Readers(maxN) ==
    \/ \E k \in 0..(maxN - 1) : ValidChannel(k) /\ wait_channel(k)
    \/ wait_scan
    \/ wait_channel_test
    \/ wait_channel_body
    \/ wait_channel_return
    \/ \E k \in 0..(maxN - 1) : ValidChannel(k) /\ get_sn(k)
    \/ get_sn_return
    \/ \E k \in 0..(maxN - 1) : ValidChannel(k) /\ get_sample(k)
    \/ get_sample_cli
    \/ get_sample_lo
    \/ get_sample_hi
    \/ get_sample_restore
    \/ get_sample_return

\* ------------------------------------------------------- specifications
\* The handler and the callbacks: begin() and end() at any time between
\* calls, callbacks attached and detached at any time.
Next == \/ \E cfg \in ConfigsOf(MaxChannels, MaxLog2) : begin(cfg)
        \/ end
        \/ ADC_vect(MaxScans, RawValues)
        \/ Attach

Spec == Init /\ [][Next]_vars

\* The handler alone, on one channel with deeper averaging.
NextAvg == \/ \E cfg \in ConfigsOf(AvgChannels, AvgLog2) : begin(cfg)
           \/ ADC_vect(AvgScans, RawValues)

SpecAvg == Init /\ [][NextAvg]_vars

\* The handler and the readers of the application thread.
NextApp == \/ \E cfg \in ConfigsOf(AppChannels, AppLog2) : begin(cfg)
           \/ ADC_vect(AppScans, TearValues)
           \/ Readers(AppChannels)

SpecApp == Init /\ [][NextApp]_vars

\* The handler alone, for more scans than sn has values.
NextLong == \/ \E cfg \in ConfigsOf(LongChannels, 1) : begin(cfg)
            \/ ADC_vect(LongScans, LongValues)

SpecLong == Init /\ [][NextLong]_vars

\* The calls made outside their preconditions: begin() with a channel_count
\* of 0, and the readers with no session active or for no channel of it.
NextEdge == \/ \E cfg \in ConfigsOf(EdgeChannels, EdgeLog2) \cup {<< >>} : begin(cfg)
            \/ end
            \/ ADC_vect(EdgeScans, EdgeValues)
            \/ Attach
            \/ \E k \in 0..EdgeChannels : get_sample(k)
            \/ get_sample_cli
            \/ get_sample_lo
            \/ get_sample_hi
            \/ get_sample_restore
            \/ get_sample_return
            \/ \E k \in 0..EdgeChannels : wait_channel(k)
            \/ wait_scan
            \/ wait_channel_test
            \/ wait_channel_body
            \/ wait_channel_return
            \/ \E k \in 0..EdgeChannels : get_sn(k)
            \/ get_sn_return

SpecEdge == Init /\ [][NextEdge]_vars

\* The handler and the readers, with raw values that tell the scans apart.
NextSnap == \/ \E cfg \in ConfigsOf(SnapChannels, 0) : begin(cfg)
            \/ ADC_vect(SnapScans, SnapValues(ScansDone))
            \/ Readers(SnapChannels)

SpecSnap == Init /\ [][NextSnap]_vars

\* The handler alone, in one session of one channel of any depth 0..15.
NextNum == \/ \E cfg \in ConfigsOf(1, MaxSampleCountLog2) : config.null /\ begin(cfg)
           \/ ADC_vect(NumScans, NumValues(win))

SpecNum == Init /\ [][NextNum]_vars

\* A step of the thread inside wait_channel.
Waiting == wait_channel_test \/ wait_channel_body \/ wait_channel_return

\* A step of the handler, conversion events without end.  When the handler
\* has returned into wait_channel, the thread executes a statement before
\* the next event is handled (the processor runs an instruction of the
\* interrupted program before it serves the next interrupt, and a conversion
\* takes longer than the handler).
Conversion ==
    /\ isr_pc = "idle" => (app_pc = "idle" \/ ran)
    /\ ADC_vect(CycleWrap, LongValues)

\* One session that is never ended and calls of wait_channel for its
\* channels.  The converter free-runs (ADATE), so the handler keeps being
\* invoked; the thread runs whenever no handler does, so a thread inside
\* wait_channel keeps taking steps.
NextLive == \/ \E cfg \in ConfigsOf(LiveChannels, LiveLog2) : config.null /\ begin(cfg)
            \/ Conversion
            \/ \E k \in 0..(LiveChannels - 1) : ValidChannel(k) /\ wait_channel(k)
            \/ wait_channel_test
            \/ wait_channel_body
            \/ wait_channel_return

SpecLive == /\ Init /\ [][NextLive]_vars
            /\ WF_vars(Conversion)
            /\ SF_vars(Waiting)

\* ------------------------------------------------------------- claims
\* The value of the two bytes get_sample has loaded.
Loaded == s_hi * UINT8 + s_lo
\* The handler is in the invocation that completes a window of chan_i.
Finalizing == isr_pc # "idle" /\ state = "ACCUMULATE" /\ sample_cnt = sample_cnt_target

\* C1: the channels are finalized in the order 0, 1, ..., N-1, 0, 1, ...: the
\* first finalization after begin() is channel 0's, and the finalization
\* that follows one of channel c is channel (c + 1) mod N's.
C1_RoundRobin ==
    fin_last # NoChannel =>
        IF fin_prev = NoChannel THEN fin_last = 0
        ELSE fin_last = (fin_prev + 1) % chan_count

\* C1 witness: two channels of different depths, in their second scan, the
\* order having wrapped from channel 1 to channel 0.
C1_Witness ==
    /\ chan_count = 2 /\ ~config.null
    /\ config.at[0].sample_count_log2 # config.at[1].sample_count_log2
    /\ fin_prev = 1 /\ fin_last = 0 /\ cycles[0] = 2

\* C2: sn[c] changes only in the handler invocation that completes a window
\* of channel c, and then to (sn[c] + 1) mod 256; between handler
\* invocations sn[c] is the number of completed windows of c modulo 256.
\* (A step of begin() replaces the whole array by zeroes.)
C2_SnStep ==
    \/ \E cfg \in ConfigsOf(LongChannels, 1) : begin(cfg)
    \/ /\ DOMAIN sn' = DOMAIN sn
       /\ \A c \in DOMAIN sn :
            sn'[c] # sn[c] =>
                /\ Finalizing /\ isr_pc = "inc_sn"
                /\ c = chan_i
                /\ sn'[c] = (sn[c] + 1) % UINT8
C2_SnCounts ==
    /\ [](isr_pc = "idle" => \A c \in DOMAIN sn : sn[c] = cycles[c] % UINT8)
    /\ [][C2_SnStep]_vars

\* C2 witness: after 256 completed windows of channel 0, each of two raw
\* values, sn[0] is 0 again.
C2_Witness ==
    /\ chan_count = 2 /\ ~config.null
    /\ config.at[0].sample_count_log2 = 1
    /\ isr_pc = "idle" /\ cycles[0] = UINT8 /\ sn[0] = 0

\* C3: in every state in which sn[c] counts all the completed windows of
\* channel c, sample[c] holds the average of the last completed one (so the
\* sample is stored before sn is incremented).
C3_SampleBeforeSn ==
    \A c \in DOMAIN sn : sn[c] = cycles[c] % UINT8 => sample[c] = last_avg[c]

\* C3 witness: inside the handler, the second window of a channel has been
\* stored and counted, with an average that differs from a first one.
C3_Witness ==
    /\ isr_pc = "channel_cb" /\ ~config.null
    /\ sn[chan_i] = 2 /\ sample[chan_i] = 2

\* C4: wait_channel(k) returns only after sn[k] was incremented during the
\* call.
C4_WaitReturnsAfterIncrement == app_pc = "wc_ret" => wc_incs >= 1

\* C4 witness: wait_channel(1) returns, sn[1] incremented once during the call.
C4_Witness == app_pc = "wc_ret" /\ channel = 1 /\ wc_incs = 1

\* C5 (as claimed): once sn[k] has been incremented during wait_channel(k),
\* the next evaluation of the loop test ends the wait.
C5_OneIncrementSuffices ==
    (app_pc = "wc_test" /\ wc_incs >= 1) => ~WaitGoesOn(last_sn, sn[channel])

\* C6: get_sample has the ADC interrupt disabled while it loads the two
\* bytes, and the value it has loaded is sample[channel] as it is stored.
C6_NoTornSample ==
    /\ app_pc \in {"gs_lo", "gs_hi", "gs_restore"} => "ADIE" \notin ADCSRA
    /\ app_pc = "gs_restore" => Loaded = sample[channel]

\* C6 witness: get_sample has loaded a published sample of channel 1 during
\* a session whose interrupt was enabled at entry.
C6_Witness ==
    /\ app_pc = "gs_restore" /\ channel = 1
    /\ "ADIE" \in old_ADCSRA /\ Loaded = 257

\* C7: the sample published for a window of T = 2^d raw values of sum S is
\* S when d = 0 and floor((S + T/2) / T) otherwise.
C7_RoundsToNearest ==
    (Finalizing /\ isr_pc = "inc_sn") =>
        LET d == config.at[chan_i].sample_count_log2
            T == Pow2(d)
            S == WinSum(win)
        IN  /\ WinCount(win) = T
            /\ sample[chan_i] = IF d = 0 THEN S ELSE (S + (T \div 2)) \div T

\* C7 witness: the window [1, 2, 2, 2] at depth 2 is published as 2.
C7_Witness ==
    /\ Finalizing /\ isr_pc = "inc_sn"
    /\ config.at[chan_i].sample_count_log2 = 2
    /\ win = (1 :> 1) @@ (2 :> 3)
    /\ sample[chan_i] = 2

\* C8: a window whose raw values are all v is published as v.
C8_ConstantWindow ==
    (Finalizing /\ isr_pc = "inc_sn") =>
        \A v \in DOMAIN win : win[v] = sample_cnt_target => sample[chan_i] = v

\* C8 witness: four raw values of 2 at depth 2, published as 2.
C8_Witness ==
    /\ Finalizing /\ isr_pc = "inc_sn"
    /\ sample_cnt_target = 4
    /\ win = (2 :> 4)
    /\ sample[chan_i] = 2

\* C9: the scan callback is invoked once in the handler invocation that
\* finalizes channel N-1 and in no other; when it is invoked the sample and
\* sn of every channel are those of the scan just completed, and the channel
\* callback of channel N-1 has run.
C9_ScanCallback ==
    /\ calls.scb = IF /\ isr_pc = "set_state"
                      /\ channel_scan_cb # NULL
                      /\ fin_last = chan_count - 1
                   THEN 1 ELSE 0
    /\ scb_seen # NotSeen =>
        /\ scb_seen.chan = chan_count - 1
        /\ scb_seen.ccb = IF channel_cb # NULL THEN 1 ELSE 0
        /\ \A c \in 0..(chan_count - 1) :
            /\ cycles[c] = cycles[chan_count - 1]
            /\ scb_seen.samples[c] = last_avg[c]
            /\ scb_seen.sn[c] = cycles[c] % UINT8

\* C9 witness: the scan callback of the second scan of two channels, after
\* the channel callback, given the samples 1 and 2.
C9_Witness ==
    /\ isr_pc = "set_state" /\ calls.scb = 1 /\ calls.ccb = 1
    /\ chan_count = 2 /\ cycles[1] = 2
    /\ scb_seen.samples[0] = 1 /\ scb_seen.samples[1] = 2

\* C10: the channel callback is invoked once per finalization and only
\* there, after sample[c] and sn[c] are updated and before chan_i advances,
\* with the finalized channel and the sample just stored.
C10_AfterCall == isr_pc \in {"advance", "scan_cb", "set_state"}
C10_State ==
    /\ calls.ccb = IF C10_AfterCall /\ channel_cb # NULL THEN 1 ELSE 0
    /\ ccb_seen # NotSeen =>
        /\ ccb_seen.chan = fin_last
        /\ ccb_seen.value = ccb_seen.sample[ccb_seen.chan]
        /\ ccb_seen.value = last_avg[ccb_seen.chan]
        /\ ccb_seen.sn[ccb_seen.chan] = cycles[ccb_seen.chan] % UINT8
C10_ChannelCallback == C10_State /\ (calls.ccb > 0 => Finalizing)

\* C10 witness: the channel callback of the second window of channel 1 has
\* returned, given the sample 2.
C10_Witness ==
    /\ isr_pc = "advance" /\ calls.ccb = 1
    /\ ccb_seen.chan = 1 /\ ccb_seen.value = 2 /\ cycles[1] = 2

\* begin() has returned and no conversion event has been handled since.
JustBegun == ~config.null /\ events = 0 /\ fin_last = NoChannel
\* The handler has stored the first sample since begin().
FirstStored == isr_pc = "inc_sn" /\ fin_prev = NoChannel
\* The sample the code is to publish for the raw values of the window w at
\* depth d.
Rounded(w, d) == IF d = 0 THEN WinSum(w)
                 ELSE (WinSum(w) + (Pow2(d) \div 2)) \div Pow2(d)

\* C11: begin() may be called at any time between handler invocations, also
\* in the middle of a window: when it has returned, every sn[c] and sample[c]
\* is 0, the phase is INIT and the channel index 0; the first sample stored
\* afterwards is channel 0's, and it is the rounded average of the
\* 2^sample_count_log2 raw values accumulated since this begin(), whatever
\* count, target and sum the previous session left behind.
C11_BeginResets ==
    /\ JustBegun =>
        /\ state = "INIT" /\ chan_i = 0
        /\ \A c \in 0..(chan_count - 1) : sn[c] = 0 /\ sample[c] = 0
    /\ FirstStored =>
        /\ chan_i = 0 /\ fin_last = 0
        /\ WinCount(win) = Pow2(config.at[0].sample_count_log2)
        /\ sample[0] = Rounded(win, config.at[0].sample_count_log2)

\* C11 witness: begin() has returned from a call made in the middle of a
\* window of two raw values, one of them (a 2) accumulated and left behind.
C11_Witness ==
    /\ JustBegun
    /\ sample_cnt = 1 /\ sample_cnt_target = 2 /\ sample_accumulator = U32(2)
    /\ config.at[0].sample_count_log2 = 0

\* C12: while no session is active (after end() and before the next begin())
\* the ADC interrupt is disabled and no handler is running, and no step
\* changes a sample or a sn or invokes a callback.
C12_Stopped == config.null => ("ADIE" \notin ADCSRA /\ isr_pc = "idle" /\ calls = NoCalls)
C12_StoppedStep ==
    (config.null /\ config'.null) => UNCHANGED <<sn, sample, calls, seen, state, chan_i>>
C12_EndStopsHandler == []C12_Stopped /\ [][C12_StoppedStep]_vars

\* C12 witness: end() has returned from a call made in the middle of a window
\* (one of two raw values accumulated), both callbacks installed; no sample
\* of the session was published.
C12_Witness ==
    /\ config.null /\ heap = 0 /\ app_pc = "idle"
    /\ state = "ACCUMULATE" /\ sample_cnt = 1 /\ sample_cnt_target = 2
    /\ fin_last = NoChannel
    /\ channel_cb = UserFn /\ channel_scan_cb = UserFn

\* C13: at most one block is allocated at any time, and one is allocated
\* exactly while a session is active (so begin() has released the previous
\* session's block and end() the active session's); a step of end() with no
\* session active frees nothing and leaves every member as it is.
C13_OneBlock == heap \in {0, 1} /\ (heap = 1 <=> ~config.null)
C13_IdleEndStep ==
    (config.null /\ config'.null /\ app_pc = "idle" /\ app_pc' = "idle") =>
        /\ heap' = heap
        /\ UNCHANGED <<ADCSRB, ADMUX, engine, cbs, isr>>
C13_StorageBalanced == []C13_OneBlock /\ [][C13_IdleEndStep]_vars

\* C13 witness: one block is allocated after a begin() that was called while
\* a session was active (it left its count and sum of a window behind).
C13_Witness ==
    /\ heap = 1 /\ JustBegun
    /\ sample_cnt = 1 /\ sample_cnt_target = 2

\* C14 (as claimed): in a session begun with a channel_count of 0 the
\* handler reads no channel descriptor, writes no sample and no sn slot, and
\* invokes no callback.
C14_NoWorkWithoutChannels ==
    (~config.null /\ chan_count = 0) =>
        /\ wild \cap {"config", "sample", "sn"} = {}
        /\ calls = NoCalls
        /\ fin_last = NoChannel

\* The events of the windows of the first n channels of the table t, each
\* window taking perWindow events besides its 2^sample_count_log2 accumulate
\* events.
RECURSIVE EventsOf(_, _, _)
EventsOf(t, n, perWindow) ==
    IF n = 0 THEN 0
    ELSE perWindow + Pow2(t[n - 1].sample_count_log2) + EventsOf(t, n - 1, perWindow)
\* The handler is at the end of the invocation that completed a scan.
ScanCompleted == isr_pc = "scan_cb"
\* The handler has overwritten channel 0's slot.
ZeroOverwritten == isr_pc = "inc_sn" /\ chan_i = 0

\* C15 (as claimed): a scan takes the sum over the channels of
\* (1 + 2^sample_count_log2) events, and channel 0's slot is overwritten
\* (1 + 2^sample_count_log2[0]) events after the last channel is finalized.
C15_OneSettleEvent ==
    /\ ScanCompleted => events = EventsOf(config.at, chan_count, 1)
    /\ ZeroOverwritten => events = EventsOf(config.at, 1, 1)

\* C15 (amended): a scan takes the sum over the channels of
\* (2 + 2^sample_count_log2) events: per channel one select event (INIT),
\* one settle event (DELAY) and 2^sample_count_log2 accumulate events; and
\* channel 0's slot is overwritten (2 + 2^sample_count_log2[0]) events after
\* the last channel is finalized (or after begin()).
C15_SelectAndSettleEvents ==
    /\ ScanCompleted => events = EventsOf(config.at, chan_count, 2)
    /\ ZeroOverwritten => events = EventsOf(config.at, 1, 2)

\* C15 witness: the second scan of two channels of depths 1 and 0 is
\* complete, 4 + 3 events after the first.
C15_Witness ==
    /\ ScanCompleted /\ chan_count = 2 /\ cycles[1] = 2
    /\ config.at[0].sample_count_log2 = 1 /\ config.at[1].sample_count_log2 = 0
    /\ events = 7

InAttachChannel == app_pc \in {"acc_cli", "acc_store", "acc_restore"}
InAttachScan == app_pc \in {"asc_cli", "asc_store", "asc_restore"}

\* C17: a step of attach_channel_callback (the thread moves into, inside or
\* out of the call) changes neither channel_scan_cb nor
\* any member of the engine, a step of attach_scan_callback neither
\* channel_cb nor any member of the engine, at any point of a scan; the call
\* has stored its argument when it restores ADCSRA; and no callback of a
\* class whose pointer is NULL is invoked.
C17_AttachStep ==
    /\ (app_pc' # app_pc /\ (InAttachChannel \/ InAttachChannel')) =>
            UNCHANGED <<channel_scan_cb, engine>>
    /\ (app_pc' # app_pc /\ (InAttachScan \/ InAttachScan')) =>
            UNCHANGED <<channel_cb, engine>>
C17_State ==
    /\ app_pc = "acc_restore" => channel_cb = cb
    /\ app_pc = "asc_restore" => channel_scan_cb = cb
    /\ calls.ccb > 0 => channel_cb # NULL
    /\ calls.scb > 0 => channel_scan_cb # NULL
C17_IndependentCallbacks == []C17_State /\ [][C17_AttachStep]_vars

\* C17 witness: the last channel of a second scan is finalized with the
\* channel callback NULL and the scan callback installed: the scan callback
\* alone was invoked.
C17_Witness ==
    /\ isr_pc = "set_state" /\ chan_count = 2 /\ cycles[1] = 2
    /\ channel_cb = NULL /\ channel_scan_cb = UserFn
    /\ calls = [ccb |-> 0, scb |-> 1]

\* C18: between calls the ADC interrupt is enabled exactly while a session
\* is active, whatever calls of get_sample and of the attach functions were
\* made, with or without a session; and get_sample returns with ADCSRA as it
\* read it on entry.
C18_InterruptEnableRestored ==
    /\ app_pc = "idle" => ("ADIE" \in ADCSRA <=> ~config.null)
    /\ app_pc = "gs_ret" => ADCSRA = old_ADCSRA

\* C18 witness: get_sample returns from a call made with no session active,
\* the interrupt disabled as on entry.
C18_Witness ==
    /\ app_pc = "gs_ret" /\ config.null /\ "ADIE" \notin ADCSRA
    /\ old_ADCSRA = {}

\* get_sample(0) has loaded its value, in the call that follows a
\* wait_channel(N-1) which returned for scan number waited.
ReadAfterWait == app_pc = "gs_restore" /\ channel = 0 /\ waited # NoScan

\* C19: the value get_sample(0) returns after wait_channel(N-1) has
\* returned for scan s is the one slot's content at the time of the load:
\* channel 0's value of the last scan that has finalized channel 0, which is
\* scan s or a later one (in SpecSnap the value of scan s is s).
C19_SingleBuffered ==
    ReadAfterWait =>
        /\ Loaded = sample[0] /\ Loaded = last_avg[0]
        /\ Loaded = cycles[0] /\ Loaded >= waited

\* C19 witness: wait_channel(1) returned for scan 1, and the get_sample(0)
\* that follows has loaded channel 0's value of scan 2.
C19_Witness ==
    /\ ReadAfterWait /\ chan_count = 2
    /\ waited = 1 /\ cycles[0] = 2 /\ cycles[1] = 1 /\ Loaded = 2

\* C20: the sample stored for a window of channel c at depth d is the
\* rounded average of exactly 2^d raw values, those of the window's
\* ACCUMULATE events; the window has taken two events more than that (its
\* INIT and its DELAY event), whose conversion results are in no sum.
C20_OnlyAccumulateEvents ==
    (Finalizing /\ isr_pc = "inc_sn") =>
        LET d == config.at[chan_i].sample_count_log2 IN
        /\ WinCount(win) = Pow2(d)
        /\ sample[chan_i] = Rounded(win, d)
        /\ events = EventsOf(config.at, chan_i, 2) + 2 + WinCount(win)

\* C20 witness: a window of depth 2 is stored after 6 events, as the
\* average 2 of its four raw values 2, 2, 2, 2.
C20_Witness ==
    /\ Finalizing /\ isr_pc = "inc_sn"
    /\ config.at[chan_i].sample_count_log2 = 2
    /\ win = (2 :> 4) /\ events = 6 /\ sample[chan_i] = 2

\* C21: a step changes sample[c] only if it is the store of a finalization of
\* channel c, and sn[c] only if it is the increment of a finalization of
\* channel c: the slots of every other channel are left as they are, and so
\* are those of c between two of its finalizations.  Between handler
\* invocations sample[c] is therefore the average of c's last completed
\* window and sn[c] the number of its completed windows modulo 256.  (A step
\* of begin() replaces both arrays by zeroes.)
C21_Step ==
    \/ \E cfg \in ConfigsOf(SnapChannels, 0) : begin(cfg)
    \/ /\ DOMAIN sn' = DOMAIN sn /\ DOMAIN sample' = DOMAIN sample
       /\ \A c \in DOMAIN sn :
            /\ sample'[c] # sample[c] =>
                    (Finalizing /\ isr_pc = "store_sample" /\ c = chan_i)
            /\ sn'[c] # sn[c] =>
                    (Finalizing /\ isr_pc = "inc_sn" /\ c = chan_i)
C21_Kept ==
    isr_pc = "idle" =>
        \A c \in DOMAIN sn :
            sample[c] = last_avg[c] /\ sn[c] = cycles[c] % UINT8
C21_FinalizationFrame == []C21_Kept /\ [][C21_Step]_vars

\* C21 witness: channel 0 has been finalized twice and channel 1 once; the
\* second finalization of channel 0 has left channel 1's sample and sn of
\* scan 1 in place.
C21_Witness ==
    /\ isr_pc = "idle" /\ chan_count = 2
    /\ cycles[0] = 2 /\ cycles[1] = 1
    /\ sample[0] = 2 /\ sn[0] = 2
    /\ sample[1] = 1 /\ sn[1] = 1

\* C23: in every state of a session of N >= 1 channels in which no handler
\* is running (the states the application thread can observe),
\* chan_i < chan_count, and while the phase is DELAY or ACCUMULATE
\* sample_cnt < sample_cnt_target and sample_cnt_target is 2 to the
\* sample_count_log2 of channel chan_i.
C23_EngineInvariant ==
    (isr_pc = "idle" /\ ~config.null /\ chan_count >= 1) =>
        /\ chan_i \in 0..(chan_count - 1)
        /\ state \in {"DELAY", "ACCUMULATE"} =>
                /\ sample_cnt < sample_cnt_target
                /\ sample_cnt_target = Pow2(config.at[chan_i].sample_count_log2)

\* C23 witness: the second channel of two, of depth 1, has accumulated one of
\* its two raw values.
C23_Witness ==
    /\ isr_pc = "idle" /\ ~config.null /\ chan_count = 2
    /\ chan_i = 1 /\ state = "ACCUMULATE"
    /\ sample_cnt = 1 /\ sample_cnt_target = 2

\* A step of begin() or of end(): the thread is between calls before and
\* after it, no handler runs, and the step handles no conversion event.
LifecycleStep ==
    /\ app_pc = "idle" /\ app_pc' = "idle"
    /\ isr_pc = "idle" /\ isr_pc' = "idle"
    /\ events' # events + 1

\* C25: a step of begin() or of end() leaves channel_cb and channel_scan_cb
\* as they are, so a callback installed before begin() or in an earlier
\* session stays installed through end() and the next begin(); and in a
\* session the handler invokes every installed callback, whenever it was
\* attached: the channel callback has been called when the handler advances
\* past a finalized channel, the scan callback when it leaves a completed
\* scan.
C25_LifecycleKeeps == LifecycleStep => UNCHANGED <<channel_cb, channel_scan_cb>>
C25_Invoked ==
    /\ (Finalizing /\ isr_pc = "advance" /\ channel_cb # NULL) => calls.ccb = 1
    /\ (Finalizing /\ isr_pc = "set_state" /\ chan_i = 0
          /\ channel_scan_cb # NULL) => calls.scb = 1
C25_CallbacksSurvive == []C25_Invoked /\ [][C25_LifecycleKeeps]_vars

\* C25 witness: end() has returned from a session in which a channel was
\* finalized, and both callbacks are still installed.
C25_Witness ==
    /\ config.null /\ heap = 0 /\ app_pc = "idle" /\ isr_pc = "idle"
    /\ fin_last # NoChannel
    /\ channel_cb = UserFn /\ channel_scan_cb = UserFn

\* The thread is in a reader, at or past a load of sn[channel] or at a load
\* of sample[channel].
Dereferencing == app_pc \in {"wc_test", "wc_body", "sn_ret", "gs_lo", "gs_hi"}

\* C26 (as claimed): whenever get_sn, get_sample, wait_channel or wait_scan
\* dereferences sn or sample for an index below chan_count, the block the
\* two pointers point into is allocated; wait_scan, which passes the index
\* chan_count - 1, therefore waits on nothing while no session is active.
C26_ReadsLiveStorage ==
    (Dereferencing /\ channel < chan_count) => (~config.null /\ heap = 1)

\* C22 (as claimed): in a session of N >= 1 channels in which the handler and
\* the thread both keep taking steps, a call of wait_channel(k), k < N, that
\* has been entered eventually returns.
C22_WaitReturns == (app_pc = "wc_test") ~> (app_pc = "idle")

\* C24: for raw values in 0..1023 and every depth d in 0..15 no counter
\* wraps: sample_cnt_target is 2^d, sample_cnt the number of raw values
\* accumulated and sample_accumulator their sum, as numbers; and the sample
\* published for a window is the rounded average of its raw values, fits in
\* 16 bits before the cast, and lies between the smallest and the largest
\* raw value of the window.
C24_NoOverflow ==
    ~config.null =>
        /\ (isr_pc = "idle" /\ state # "INIT") =>
                /\ sample_cnt_target = Pow2(config.at[chan_i].sample_count_log2)
                /\ sample_cnt = WinCount(win)
                /\ sample_cnt < sample_cnt_target
                /\ U32Value(sample_accumulator) = WinSum(win)
        /\ (Finalizing /\ isr_pc = "inc_sn") =>
                LET d == config.at[chan_i].sample_count_log2 IN
                /\ sample_cnt = Pow2(d) /\ WinCount(win) = Pow2(d)
                /\ U32Value(accumulator) = Rounded(win, d)
                /\ sample[chan_i] = U32Value(accumulator)
                /\ WinMin(win) <= sample[chan_i] /\ sample[chan_i] <= WinMax(win)
                /\ sample[chan_i] \in 0..MaxRaw

\* C24 witness: a window of depth 15 is published; its 32768 raw values
\* are a 0 and 32767 times 1023, and the sample is their rounded average
\* 1023.
C24_Witness ==
    /\ Finalizing /\ isr_pc = "inc_sn"
    /\ config.at[chan_i].sample_count_log2 = MaxSampleCountLog2
    /\ sample_cnt = 32768
    /\ win = (0 :> 1) @@ (MaxRaw :> 32767)
    /\ sample[chan_i] = MaxRaw
====
